---------------------------- MODULE Spec2Model ----------------------------
(***************************************************************************)
(* A model of Handler.ServeHTTP (src/uwsgi.go): one inbound HTTP request   *)
(* is validated, mapped to uwsgi variables, a backend connection is        *)
(* acquired with exponential backoff, the framed packet and the request    *)
(* body are written, and the backend's reply is relayed.                   *)
(*                                                                         *)
(* Strings are sequences of bytes (0..255).  Time is in milliseconds.      *)
(***************************************************************************)
EXTENDS Integers, Sequences, FiniteSets, TLC

(***************************************************************************)
(* String literals of the program.                                         *)
(***************************************************************************)
S_QUERY_STRING == <<81, 85, 69, 82, 89, 95, 83, 84, 82, 73, 78, 71>>  \* "QUERY_STRING"
S_REQUEST_METHOD == <<82, 69, 81, 85, 69, 83, 84, 95, 77, 69, 84, 72, 79, 68>>  \* "REQUEST_METHOD"
S_CONTENT_TYPE == <<67, 79, 78, 84, 69, 78, 84, 95, 84, 89, 80, 69>>  \* "CONTENT_TYPE"
S_CONTENT_LENGTH == <<67, 79, 78, 84, 69, 78, 84, 95, 76, 69, 78, 71, 84, 72>>  \* "CONTENT_LENGTH"
S_REQUEST_URI == <<82, 69, 81, 85, 69, 83, 84, 95, 85, 82, 73>>  \* "REQUEST_URI"
S_PATH_INFO == <<80, 65, 84, 72, 95, 73, 78, 70, 79>>  \* "PATH_INFO"
S_SERVER_PROTOCOL == <<83, 69, 82, 86, 69, 82, 95, 80, 82, 79, 84, 79, 67, 79, 76>>  \* "SERVER_PROTOCOL"
S_SERVER_NAME == <<83, 69, 82, 86, 69, 82, 95, 78, 65, 77, 69>>  \* "SERVER_NAME"
S_HTTPS == <<72, 84, 84, 80, 83>>  \* "HTTPS"
S_on == <<111, 110>>  \* "on"
S_SERVER_PORT == <<83, 69, 82, 86, 69, 82, 95, 80, 79, 82, 84>>  \* "SERVER_PORT"
S_443 == <<52, 52, 51>>  \* "443"
S_80 == <<56, 48>>  \* "80"
S_REMOTE_ADDR == <<82, 69, 77, 79, 84, 69, 95, 65, 68, 68, 82>>  \* "REMOTE_ADDR"
S_REMOTE_PORT == <<82, 69, 77, 79, 84, 69, 95, 80, 79, 82, 84>>  \* "REMOTE_PORT"
S_HTTP_ == <<72, 84, 84, 80, 95>>  \* "HTTP_"
S_CommaSpace == <<44, 32>>  \* ", "
S_https == <<104, 116, 116, 112, 115>>  \* "https"
KeyTrailer == <<84, 114, 97, 105, 108, 101, 114>>  \* "Trailer"
KeyContentType == <<67, 111, 110, 116, 101, 110, 116, 45, 84, 121, 112, 101>>  \* "Content-Type"
KeyXForwardedProto == <<88, 45, 70, 111, 114, 119, 97, 114, 100, 101, 100, 45, 80, 114, 111, 116, 111>>  \* "X-Forwarded-Proto"
KeyXForwardedFor == <<88, 45, 70, 111, 114, 119, 97, 114, 100, 101, 100, 45, 70, 111, 114>>  \* "X-Forwarded-For"

\* a faulty ceiling: 1<<24 - 1, as for a three-byte size field
maxSizeWide == 65536 * 256 - 1

\* const maxSize = 1<<16 - 1
maxSize == 65535

\* time.Second and the first delay 5 * time.Millisecond, in milliseconds
Second == 1000

FirstDelay == 5

StatusBadRequest == 400

StatusRequestHeaderFieldsTooLarge == 431

StatusBadGateway == 502

StatusServiceUnavailable == 503

StatusGatewayTimeout == 504

(***************************************************************************)
(* Library functions the handler calls, on byte strings.                   *)
(***************************************************************************)
Byte == 0..255

\* uint16(n): conversion of an int to 16 bits
Uint16(n) == n % 65536

\* a faulty PutUint16: the high byte first
PutUint16BigEndian(v) == <<v \div 256, v % 256>>

\* binary.LittleEndian.PutUint16 / binary.Write(buf, binary.LittleEndian, uint16)
PutUint16(v) == <<v % 256, v \div 256>>

\* strings.IndexByte(s, c): 0-based index of the first c in s, or -1
IndexByte(s, c) ==
    IF \E i \in 1..Len(s) : s[i] = c
    THEN (CHOOSE i \in 1..Len(s) : s[i] = c /\ \A j \in 1..(i - 1) : s[j] # c) - 1
    ELSE -1

\* the last index of c in s (0-based), or -1, as net.SplitHostPort's helper last
LastIndexByte(s, c) ==
    IF \E i \in 1..Len(s) : s[i] = c
    THEN (CHOOSE i \in 1..Len(s) : s[i] = c /\ \A j \in (i + 1)..Len(s) : s[j] # c) - 1
    ELSE -1

\* Go's s[a:b] with 0-based a, b
Slice(s, a, b) == SubSeq(s, a + 1, b)

\* net.SplitHostPort(hostport): [ok, host, port]
SplitHostPort(hostport) ==
    LET i == LastIndexByte(hostport, 58)
        fail == [ok |-> FALSE, host |-> <<>>, port |-> <<>>]
        n == Len(hostport)
    IN  IF i < 0 THEN fail
        ELSE IF hostport[1] = 91
        THEN LET end == IndexByte(hostport, 93)
             IN  IF end < 0 \/ end + 1 # i THEN fail
                 ELSE IF IndexByte(Slice(hostport, 1, n), 91) >= 0
                         \/ IndexByte(Slice(hostport, end + 1, n), 93) >= 0
                 THEN fail
                 ELSE [ok |-> TRUE, host |-> Slice(hostport, 1, end),
                       port |-> Slice(hostport, i + 1, n)]
        ELSE IF IndexByte(Slice(hostport, 0, i), 58) >= 0 THEN fail
        ELSE IF IndexByte(hostport, 91) >= 0 \/ IndexByte(hostport, 93) >= 0 THEN fail
        ELSE [ok |-> TRUE, host |-> Slice(hostport, 0, i),
              port |-> Slice(hostport, i + 1, n)]

RECURSIVE Digits(_)
\* the decimal digits of n >= 0
Digits(n) == IF n < 10 THEN <<48 + n>> ELSE Digits(n \div 10) \o <<48 + (n % 10)>>

\* strconv.FormatInt(n, 10)
FormatInt(n) == IF n < 0 THEN <<45>> \o Digits(-n) ELSE Digits(n)

RECURSIVE Join(_, _)
\* strings.Join(v, sep)
Join(v, sep) ==
    IF Len(v) = 0 THEN <<>>
    ELSE IF Len(v) = 1 THEN v[1]
    ELSE v[1] \o sep \o Join(Tail(v), sep)

\* the rune mapping of line 98-103 on ASCII: '-' becomes '_', letters are upper-cased
MapRune(c) == IF c = 45 THEN 95 ELSE IF c >= 97 /\ c <= 122 THEN c - 32 ELSE c

\* "HTTP_" + strings.Map(..., k)
MapName(k) ==
    LET kk == SubSeq(k, 1, Len(k))
    IN  S_HTTP_ \o [i \in 1..Len(kk) |-> MapRune(kk[i])]

\* http.Header.Get(key): the first value of key, or "".  A header map is the
\* sequence of its entries [key, vals], each key once.
Get(h, key) ==
    IF \E i \in 1..Len(h) : h[i].key = key /\ Len(h[i].vals) > 0
    THEN h[CHOOSE i \in 1..Len(h) : h[i].key = key].vals[1]
    ELSE << >>

(***************************************************************************)
(* Header Mapper: lines 57-125 of ServeHTTP.                               *)
(***************************************************************************)
\* type hdr struct { name, value string }
hdr(n, v) == [name |-> n, value |-> v]

\* the eight positional pairs, lines 64-73
Positional(req) ==
    << hdr(S_QUERY_STRING, req.RawQuery),
       hdr(S_REQUEST_METHOD, req.Method),
       hdr(S_CONTENT_TYPE, Get(req.Header, KeyContentType)),
       hdr(S_CONTENT_LENGTH, FormatInt(req.ContentLength)),
       hdr(S_REQUEST_URI, req.RequestURI),
       hdr(S_PATH_INFO, req.Path),
       hdr(S_SERVER_PROTOCOL, req.Proto),
       hdr(S_SERVER_NAME, req.Host) >>

\* a faulty SchemeHeaders: X-Forwarded-Proto is not looked at
SchemeHeadersNoForwarded(req) ==
    IF req.Scheme = S_https
    THEN << hdr(S_HTTPS, S_on), hdr(S_SERVER_PORT, S_443) >>
    ELSE IF req.LocalAddr.ok
    THEN LET sp == SplitHostPort(req.LocalAddr.addr)
         IN  IF sp.ok THEN << hdr(S_SERVER_PORT, sp.port) >> ELSE << >>
    ELSE << hdr(S_SERVER_PORT, S_80) >>

\* HTTPS / SERVER_PORT, lines 74-82
SchemeHeaders(req) ==
    IF req.Scheme = S_https \/ Get(req.Header, KeyXForwardedProto) = S_https
    THEN << hdr(S_HTTPS, S_on), hdr(S_SERVER_PORT, S_443) >>
    ELSE IF req.LocalAddr.ok
    THEN LET sp == SplitHostPort(req.LocalAddr.addr)
         IN  IF sp.ok THEN << hdr(S_SERVER_PORT, sp.port) >> ELSE << >>
    ELSE << hdr(S_SERVER_PORT, S_80) >>

\* REMOTE_ADDR / REMOTE_PORT, lines 83-96
RemoteHeaders(req) ==
    LET s == Get(req.Header, KeyXForwardedFor)
        hasRemoteAddr == s # << >>
        i == IndexByte(s, 44)
        fwd == IF hasRemoteAddr
               THEN << hdr(S_REMOTE_ADDR, IF i > 0 THEN Slice(s, 0, i) ELSE s) >>
               ELSE << >>
        sp == SplitHostPort(req.RemoteAddr)
        peer == IF sp.ok
                THEN (IF hasRemoteAddr THEN << >> ELSE << hdr(S_REMOTE_ADDR, sp.host) >>)
                     \o << hdr(S_REMOTE_PORT, sp.port) >>
                ELSE << >>
    IN  fwd \o peer

\* h := hdr{k2, strings.Join(v, ", ")} for the entry e = (k, v), lines 98-104
MappedHeader(e) == hdr(MapName(e.key), Join(e.vals, S_CommaSpace))

\* len(h.name) > maxSize || len(h.value) > maxSize, lines 105 and 114
TooLarge(h) == Len(h.name) > maxSize \/ Len(h.value) > maxSize

RECURSIVE Size(_)
\* size += len(h.name) + len(h.value) + 4 over headers, lines 112-120
Size(hs) ==
    IF Len(hs) = 0 THEN 0
    ELSE Len(hs[1].name) + Len(hs[1].value) + 4 + Size(Tail(hs))

\* a faulty SizeExceeds: the aggregate check left out
SizeNeverExceeds(n) == FALSE

\* size > maxSize, line 121
SizeExceeds(n) == n > maxSize

\* a faulty HasTrailer: a request with trailers passes
TrailerIgnored(req) == FALSE

\* r.Header.Get("Trailer") != "", line 57
HasTrailer(req) == Get(req.Header, KeyTrailer) # << >>

\* the orders in which `for k, v := range r.Header` may visit the entries of the
\* map: the permutations of their indexes
RangeOrders(h) ==
    {o \in [1..Len(h) -> 1..Len(h)] : \A i, j \in 1..Len(h) : i # j => o[i] # o[j]}

\* the pairs appended by the loop of lines 97-111 when it visits the entries in order o
MappedHeaders(req, o) == [i \in 1..Len(o) |-> MappedHeader(req.Header[o[i]])]

\* headers as built by lines 64-111 when no mapped header is too large
BuildHeaders(req, o) ==
    Positional(req) \o SchemeHeaders(req) \o RemoteHeaders(req) \o MappedHeaders(req, o)

(***************************************************************************)
(* The requests of the model.                                              *)
(***************************************************************************)
\* the longest request body and backend reply body, in bytes
MaxBody == 2

MaxRespBody == 2

\* a string of n bytes 'x'
Pad(n) == [i \in 1..n |-> 120]

S_GET == <<71, 69, 84>>  \* "GET"
S_Proto11 == <<72, 84, 84, 80, 47, 49, 46, 49>>  \* "HTTP/1.1"
S_Query == <<113, 61, 49>>  \* "q=1"
S_Path == <<47, 112>>  \* "/p"
S_Uri == <<47, 112, 63, 113, 61, 49>>  \* "/p?q=1"
S_Host == <<104, 46, 101, 120, 97, 109, 112, 108, 101>>  \* "h.example"
S_Peer == <<57, 46, 57, 46, 57, 46, 57, 58, 53, 53, 53>>  \* "9.9.9.9:555"
S_Local == <<49, 48, 46, 48, 46, 48, 46, 49, 58, 56, 48, 56, 48>>  \* "10.0.0.1:8080"
S_LocalNoPort == <<64>>  \* "@", the address of an unnamed unix socket
S_PeerNoPort == <<112, 105, 112, 101>>  \* "pipe"
S_XFFTwo == <<49, 46, 50, 46, 51, 46, 52, 44, 32, 53, 46, 54, 46, 55, 46, 54>>  \* "1.2.3.4, 5.6.7.6"
S_TextPlain == <<116, 101, 120, 116, 47, 112, 108, 97, 105, 110>>  \* "text/plain"
S_Expires == <<69, 120, 112, 105, 114, 101, 115>>  \* "Expires"
S_V1 == <<49>>  \* "1"
S_V2 == <<50, 50>>  \* "22"
KeyXA == <<88, 45, 65>>  \* "X-A"
S_XFFLeadingComma == <<44, 53, 46, 54, 46, 55, 46, 54>>  \* ",5.6.7.6"
S_XFFOne == <<49, 46, 50, 46, 51, 46, 52>>  \* "1.2.3.4"
S_http == <<104, 116, 116, 112>>  \* "http"
S_Peer6 == <<91, 58, 58, 49, 93, 58, 53, 53, 53>>  \* "[::1]:555"
S_LocalSocket == <<47, 114, 117, 110, 47, 97, 112, 112, 46, 115, 111, 99, 107>>  \* "/run/app.sock", the address of a unix socket listener
KeyXB == <<88, 45, 66>>  \* "X-B"

\* an entry of a header map
Entry(k, v) == [key |-> k, vals |-> v]

BaseRequest ==
    [ Method |-> S_GET, RawQuery |-> S_Query, RequestURI |-> S_Uri, Path |-> S_Path,
      Proto |-> S_Proto11, Host |-> S_Host, Scheme |-> << >>, ContentLength |-> 0,
      RemoteAddr |-> S_Peer, LocalAddr |-> [ok |-> TRUE, addr |-> S_Local],
      Header |-> << >>, Body |-> << >> ]

\* the total size of BaseRequest's pairs when it carries X-A with an empty value
BaseSizeWithXA ==
    Size(BuildHeaders([BaseRequest EXCEPT !.Header = << Entry(KeyXA, << << >> >>) >>], <<1>>))

\* header maps: small ones, ones with a Trailer, and ones at and over the limits
SmallHeaders ==
    << << >>,
       << Entry(KeyXA, <<S_V1, S_V2>>) >>,
       << Entry(KeyContentType, <<S_TextPlain>>), Entry(KeyXA, <<S_V1>>) >> >>

TrailerHeaders ==
    << << Entry(KeyTrailer, <<S_Expires>>) >>,
       << Entry(KeyTrailer, <<S_Expires>>), Entry(KeyXA, <<Pad(65536)>>) >>,
       << Entry(KeyTrailer, <<S_Expires>>), Entry(KeyXA, <<Pad(32768)>>),
          Entry(KeyXB, <<Pad(32768)>>) >> >>

OversizeFieldHeaders ==
    << << Entry(KeyXA, <<Pad(65536)>>) >>,
       << Entry(KeyXA, <<S_V1>>), Entry(Pad(65531), <<S_V1>>) >>,
       << Entry(KeyXA, <<Pad(40000), Pad(40000)>>) >> >>

OversizeTotalHeaders ==
    << << Entry(KeyXA, <<Pad(32768)>>), Entry(KeyXB, <<Pad(32768)>>) >>,
       << Entry(KeyXA, <<Pad(65535)>>) >>,
       << Entry(KeyXA, <<Pad(65536 - BaseSizeWithXA)>>) >> >>

ExactFitHeaders == << << Entry(KeyXA, <<Pad(65535 - BaseSizeWithXA)>>) >> >>

HeaderMaps ==
    SmallHeaders \o TrailerHeaders \o OversizeFieldHeaders \o OversizeTotalHeaders
        \o ExactFitHeaders

\* requests that differ from BaseRequest in scheme, addresses and body
OtherRequests ==
    << [BaseRequest EXCEPT !.Scheme = S_https],
       [BaseRequest EXCEPT !.LocalAddr = [ok |-> FALSE, addr |-> << >>]],
       [BaseRequest EXCEPT !.LocalAddr = [ok |-> TRUE, addr |-> S_LocalNoPort],
                           !.RemoteAddr = S_PeerNoPort],
       [BaseRequest EXCEPT !.Header = << Entry(KeyXForwardedFor, <<S_XFFTwo>>) >>],
       [BaseRequest EXCEPT !.Body = Pad(MaxBody), !.ContentLength = MaxBody],
       [BaseRequest EXCEPT !.Body = Pad(MaxBody), !.ContentLength = -1],
       [BaseRequest EXCEPT !.Header = << Entry(KeyXForwardedFor, <<S_XFFLeadingComma>>) >>],
       [BaseRequest EXCEPT !.Header = << Entry(KeyXForwardedFor, <<S_XFFOne>>) >>,
                           !.RemoteAddr = S_PeerNoPort],
       [BaseRequest EXCEPT !.Header = << Entry(KeyXForwardedFor, << << >> >>) >>,
                           !.RemoteAddr = S_Peer6],
       [BaseRequest EXCEPT !.Header = << Entry(KeyXForwardedProto, <<S_https>>) >>],
       [BaseRequest EXCEPT !.Header = << Entry(KeyXForwardedProto, <<S_http>>) >>],
       [BaseRequest EXCEPT !.Scheme = S_https,
                           !.LocalAddr = [ok |-> FALSE, addr |-> << >>]],
       [BaseRequest EXCEPT !.LocalAddr = [ok |-> TRUE, addr |-> S_LocalSocket]] >>

\* the requests, numbered
Requests ==
    [i \in 1..Len(HeaderMaps) |-> [BaseRequest EXCEPT !.Header = HeaderMaps[i]]]
        \o OtherRequests

(***************************************************************************)
(* The errors the injected dial function may return, by what lines 133 and *)
(* 136 can observe of them: identity with context.Canceled, the net.Error  *)
(* interface and its Temporary method.  canceled records whether the error *)
(* reports the cancellation of the request context.                        *)
(***************************************************************************)
\* context.Canceled itself
ErrCanceled ==
    [id |-> "context.Canceled", netError |-> FALSE, temporary |-> FALSE, canceled |-> TRUE]

\* what net.Dialer.DialContext returns on a cancelled context: *net.OpError
\* wrapping "operation was canceled"
ErrOpCanceled ==
    [id |-> "net.OpError: operation was canceled", netError |-> TRUE,
     temporary |-> FALSE, canceled |-> TRUE]

\* a net.Error whose Temporary() is true
ErrTemporary ==
    [id |-> "net.Error temporary", netError |-> TRUE, temporary |-> TRUE, canceled |-> FALSE]

\* a net.Error whose Temporary() is false, such as connection refused
ErrRefused ==
    [id |-> "net.Error connection refused", netError |-> TRUE,
     temporary |-> FALSE, canceled |-> FALSE]

\* an error that is no net.Error
ErrOther ==
    [id |-> "error", netError |-> FALSE, temporary |-> FALSE, canceled |-> FALSE]

DialErrors == {ErrCanceled, ErrOpCanceled, ErrTemporary, ErrRefused, ErrOther}

\* err == context.Canceled, line 133
IsCanceled(e) == e = ErrCanceled

\* a faulty IsTemporary: every net.Error is retried
IsNetError(e) == e.netError

\* ne, ok := err.(net.Error); ok && ne.Temporary(), line 136
IsTemporary(e) == e.netError /\ e.temporary

\* a faulty NextDelay: the delay is reset for every retry
NextDelayReset(d) == FirstDelay

\* a faulty NextDelay: the delay grows by 5 ms each time
NextDelayLinear(d) == IF d = 0 THEN FirstDelay ELSE d + FirstDelay

\* lines 137-141
NextDelay(d) == IF d = 0 THEN FirstDelay ELSE d * 2

\* a faulty SelectCases: the wait is a plain sleep
SelectTimerOnly == {"timer"}

\* the channels of the select of lines 148-153: time.After and r.Context().Done()
SelectCases == {"timer", "done"}

\* a faulty ConnCloses: the defer is forgotten
ConnNeverCloses(registered) == 0

\* how often conn.Close runs when ServeHTTP returns or panics: the defer of line 159
ConnCloses(registered) == IF registered THEN 1 ELSE 0

\* a faulty FailureNext: the handler dials again after a failed exchange
FailureRetries == "dial"

\* the return of lines 175, 181 and 187
FailureNext == "done"

(***************************************************************************)
(* Packet Encoder: lines 161-171.                                          *)
(***************************************************************************)
RECURSIVE EncodePairs(_)
\* the loop of lines 166-171
EncodePairs(hs) ==
    IF Len(hs) = 0 THEN << >>
    ELSE PutUint16(Uint16(Len(hs[1].name))) \o hs[1].name
         \o PutUint16(Uint16(Len(hs[1].value))) \o hs[1].value
         \o EncodePairs(Tail(hs))

\* uwsgiHeader, lines 161-162: modifier1, datasize, modifier2
UwsgiHeader(n) == <<0>> \o PutUint16(Uint16(n)) \o <<0>>

\* the buffer after lines 164-171
EncodePacket(n, hs) == UwsgiHeader(n) \o EncodePairs(hs)

(***************************************************************************)
(* The response writer.                                                    *)
(***************************************************************************)
NoRespHeader == [k \in {} |-> << >>]

\* a fresh http.ResponseWriter: nothing written.  header is the map w.Header()
\* returns; sent is that map as it was when the status was written; wroteHeader
\* counts the calls of WriteHeader
FreshWriter ==
    [status |-> 0, header |-> NoRespHeader, body |-> << >>, text |-> "", arg |-> 0,
     sent |-> NoRespHeader, wroteHeader |-> 0]

\* wHeader[k] = v for every k, v of h, lines 189-192
SetHeaders(wr, h) == [wr EXCEPT !.header = h @@ wr.header]

\* w.WriteHeader(code): the first call sends the status with the header map as it
\* is then; a later call sends nothing
WriteHeader(wr, code) ==
    IF wr.wroteHeader = 0
    THEN [wr EXCEPT !.status = code, !.sent = wr.header, !.wroteHeader = 1]
    ELSE [wr EXCEPT !.wroteHeader = @ + 1]

\* w.Write(b): sends the status 200 first when none was written
Write(wr, b) ==
    LET w1 == IF wr.wroteHeader = 0
              THEN [wr EXCEPT !.status = 200, !.sent = wr.header, !.wroteHeader = 1]
              ELSE wr
    IN  [w1 EXCEPT !.body = @ \o b]

\* http.Error(w, text, code); arg is the %q argument of line 106, as the index of
\* the entry of r.Header (0 when the text has none)
HttpError(wr, text, arg, code) ==
    [WriteHeader(
        [wr EXCEPT !.header = ("Content-Type" :> <<"text/plain; charset=utf-8">>)
                       @@ ("X-Content-Type-Options" :> <<"nosniff">>)
                       @@ [k \in DOMAIN wr.header \ {"Content-Length"} |-> wr.header[k]]],
        code)
     EXCEPT !.text = text, !.arg = arg]

\* a faulty RelayWriter: the status is written before the headers are set
RelayStatusFirst(wr, rs) == SetHeaders(WriteHeader(wr, rs.StatusCode), rs.Header)

\* lines 189-193: the reply's headers are set, then the status is written
RelayWriter(wr, rs) == WriteHeader(SetHeaders(wr, rs.Header), rs.StatusCode)

\* a faulty CopyWriter: a copy that fails is reported with a 502 response
CopyWriterReports(wr, body, n) ==
    LET w1 == IF n = 0 THEN wr ELSE Write(wr, SubSeq(body, 1, n))
    IN  IF n < Len(body) THEN HttpError(w1, "Bad Gateway", 0, StatusBadGateway) ELSE w1

\* line 194: io.Copy(w, resp.Body) that copied n bytes; its error is dropped
CopyWriter(wr, body, n) == IF n = 0 THEN wr ELSE Write(wr, SubSeq(body, 1, n))

\* the replies http.ReadResponse may parse from the backend
Replies ==
    [StatusCode : {200, 404},
     Header : {NoRespHeader, "Content-Type" :> <<"text/html">>,
               ("Set-Cookie" :> <<"a=1", "b=2">>) @@ ("X-Content-Type-Options" :> <<"none">>)},
     Body : {<< >>, [i \in 1..MaxRespBody |-> 66]}]

NoResp == [StatusCode |-> 0, Header |-> NoRespHeader, Body |-> << >>]

(***************************************************************************)
(* Concurrent calls of ServeHTTP and the buffers of bufPool, lines 163-177  *)
(* and 207-209.  A buffer is [segs, off, users]: the calls whose packets    *)
(* were written into it since its last Reset, the number of bytes read from *)
(* it since, and the calls that got it from the pool.                       *)
(***************************************************************************)
\* the number of concurrent calls
NProcs == 3

Procs == 1..NProcs

\* the packets the calls encode: call p serves one of the first three requests
PoolPackets ==
    [p \in Procs |->
        LET req == Requests[((p - 1) % 3) + 1]
            hs == BuildHeaders(req, [i \in 1..Len(req.Header) |-> i])
        IN  EncodePacket(Size(hs), hs)]

\* the packet call p encodes
PoolPacket(p) == PoolPackets[p]

RECURSIVE SegBytes(_)
\* the bytes written into a buffer by the calls segs, in order
SegBytes(segs) ==
    IF Len(segs) = 0 THEN << >> ELSE PoolPacket(segs[1]) \o SegBytes(Tail(segs))

\* the unread bytes of the buffer b
BufBytes(b) == SubSeq(SegBytes(b.segs), b.off + 1, Len(SegBytes(b.segs)))

\* new(bytes.Buffer), line 208, got by call p
NewBuffer(p) == [segs |-> << >>, off |-> 0, users |-> <<p>>]

\* nothing written to the connection of a call
NoSent == [segs |-> << >>, lo |-> 0, hi |-> 0]

\* a faulty PoolTake: Get hands out a buffer and leaves it in the pool
PoolKeep(idleSet, b) == idleSet

\* sync.Pool.Get removes the item it returns from the pool
PoolTake(idleSet, b) == idleSet \ {b}

(***************************************************************************)
(* State.  The request, the header pairs and the packet are long strings;  *)
(* the state holds what determines them (the number of the request, the    *)
(* order in which the header map was visited, the offsets reached in the   *)
(* buffer and on the connection) and they are defined from it.             *)
(***************************************************************************)
VARIABLES
    rid,          \* the number of the request
    order,        \* the order in which lines 97-111 visited r.Header
    ctxDone,      \* r.Context().Done() is closed
    pc,           \* where ServeHTTP is
    outcome,      \* "none", "returned" or "abort" (panic(http.ErrAbortHandler))
    tempDelay,    \* the local tempDelay, in ms
    timerFired,   \* the channel of time.After(tempDelay) has a value
    woke,         \* the case that woke the parked select: "none", "timer", "done"
    connOpen,     \* dial returned a connection
    deferClose,   \* defer conn.Close() is registered
    closes,       \* how often conn.Close ran
    bufLen,       \* the number of bytes written into the buffer taken from bufPool
    bufOff,       \* the number of those bytes read from it
    pktSent,      \* the number of bytes of the packet written to the connection
    bodySent,     \* the number of bytes of r.Body written to the connection
    bufPool,      \* the number of idle buffers in bufPool
    resp,         \* the parsed backend reply
    w,            \* the response writer
    logs,         \* the calls of logf
    dialCalls,    \* history: the number of dial calls
    dialErrs,     \* history: the errors dial returned, in order
    waits,        \* history: the delays of the timers started, in order
    packetWrites, \* history: the number of times the packet write was started
    cancelledInWait, \* history: the context was cancelled while parked in the select
    copyErr,      \* history: the error of the io.Copy of line 194: "none", "nil", "error"
    backendStalled, \* the backend has stopped reading from and writing to the connection
    idle,         \* concurrent calls: the buffers bufPool holds
    bufs,         \* concurrent calls: the buffers bufPool.New has made
    proc          \* concurrent calls: where each call is in lines 163-177

\* the variables of one call of ServeHTTP
handlerVars ==
    << rid, order, ctxDone, pc, outcome, tempDelay, timerFired, woke, connOpen,
       deferClose, closes, bufLen, bufOff, pktSent, bodySent, bufPool, resp, w, logs,
       dialCalls, dialErrs, waits, packetWrites, cancelledInWait, copyErr,
       backendStalled >>

\* the variables of the concurrent calls that share bufPool
poolVars == << idle, bufs, proc >>

vars == << handlerVars, poolVars >>

\* the request r
r == Requests[rid]

\* the local headers, once lines 64-111 have built it
headers == BuildHeaders(r, order)

\* the local size, once lines 112-120 have summed it
size == Size(headers)

\* what lines 164-171 write into the buffer
Packet == EncodePacket(size, headers)

\* the unread contents of the buffer
buf == IF bufLen = 0 THEN << >> ELSE SubSeq(Packet, bufOff + 1, bufLen)

\* the bytes written to the connection
connIn ==
    (IF pktSent = 0 THEN << >> ELSE SubSeq(Packet, 1, pktSent))
        \o SubSeq(r.Body, 1, bodySent)

Init ==
    /\ rid \in 1..Len(Requests)
    /\ order = << >>
    /\ ctxDone = FALSE
    /\ pc = "start"
    /\ outcome = "none"
    /\ tempDelay = 0
    /\ timerFired = FALSE
    /\ woke = "none"
    /\ connOpen = FALSE
    /\ deferClose = FALSE
    /\ closes = 0
    /\ bufLen = 0
    /\ bufOff = 0
    /\ pktSent = 0
    /\ bodySent = 0
    /\ bufPool = 0
    /\ resp = NoResp
    /\ w = FreshWriter
    /\ logs = << >>
    /\ dialCalls = 0
    /\ dialErrs = << >>
    /\ waits = << >>
    /\ packetWrites = 0
    /\ cancelledInWait = FALSE
    /\ copyErr = "none"
    /\ backendStalled = FALSE
    /\ idle = {}
    /\ bufs = << >>
    /\ proc = [p \in Procs |-> [pc |-> "get", buf |-> 0, had |-> 0, sent |-> NoSent]]

\* ServeHTTP returns: the deferred calls run
Return ==
    /\ pc' = "done"
    /\ outcome' = "returned"
    /\ closes' = closes + ConnCloses(deferClose)

\* panic(http.ErrAbortHandler): the deferred calls run, nothing is written
Abort ==
    /\ pc' = "done"
    /\ outcome' = "abort"
    /\ closes' = closes + ConnCloses(deferClose)

\* lines 56-125: the trailer check, the header pairs and the size checks
Validate ==
    /\ pc = "start"
    /\ IF HasTrailer(r)
       THEN /\ w' = HttpError(w, "Request trailers are not supported", 0, StatusBadRequest)
            /\ Return
            /\ UNCHANGED order
       ELSE \E o \in RangeOrders(r.Header) :
              LET mapped == MappedHeaders(r, o)
                  bad == {i \in 1..Len(o) : TooLarge(mapped[i])}
                  first == CHOOSE i \in bad : \A j \in bad : i <= j
                  hs == BuildHeaders(r, o)
              IN  IF bad # {}
                  THEN /\ w' = HttpError(w, "Header %q is too large\n", o[first],
                                         StatusRequestHeaderFieldsTooLarge)
                       /\ Return
                       /\ UNCHANGED order
                  ELSE IF (\E i \in 1..Len(hs) : TooLarge(hs[i])) \/ SizeExceeds(Size(hs))
                  THEN /\ w' = HttpError(w, "Request Header Fields Too Large", 0,
                                         StatusRequestHeaderFieldsTooLarge)
                       /\ Return
                       /\ UNCHANGED order
                  ELSE /\ order' = o
                       /\ pc' = "dial"
                       /\ UNCHANGED <<w, outcome, closes>>
    /\ UNCHANGED << poolVars, backendStalled, copyErr, rid, ctxDone, tempDelay, timerFired, woke, connOpen, deferClose,
                    bufLen, bufOff, pktSent, bodySent, bufPool, resp, logs, dialCalls,
                    dialErrs, waits, packetWrites, cancelledInWait >>

\* lines 130-158: one call of dial and what the loop does with its result
Dial ==
    /\ pc = "dial"
    /\ dialCalls' = dialCalls + 1
    /\ \/ \* err == nil: break, and defer conn.Close()
          /\ dialErrs' = Append(dialErrs, "nil")
          /\ connOpen' = TRUE
          /\ deferClose' = TRUE
          /\ pc' = "encode"
          /\ UNCHANGED <<outcome, closes, tempDelay, timerFired, waits, w, logs>>
       \/ \E e \in DialErrors :
          /\ e.canceled => ctxDone
          /\ dialErrs' = Append(dialErrs, e.id)
          /\ UNCHANGED <<connOpen, deferClose>>
          /\ IF IsCanceled(e)
             THEN /\ Abort
                  /\ UNCHANGED <<tempDelay, timerFired, waits, w, logs>>
             ELSE IF IsTemporary(e)
             THEN /\ tempDelay' = NextDelay(tempDelay)
                  /\ IF tempDelay' > Second
                     THEN /\ logs' = Append(logs, "uwsgi backend connect: %v")
                          /\ w' = HttpError(w, "Gateway Timeout", 0, StatusGatewayTimeout)
                          /\ Return
                          /\ UNCHANGED <<timerFired, waits>>
                     ELSE /\ pc' = "select"
                          /\ timerFired' = FALSE
                          /\ waits' = Append(waits, tempDelay')
                          /\ UNCHANGED <<outcome, closes, w, logs>>
             ELSE /\ logs' = Append(logs, "uwsgi backend connect: %v")
                  /\ w' = HttpError(w, "Service Unavailable", 0, StatusServiceUnavailable)
                  /\ Return
                  /\ UNCHANGED <<tempDelay, timerFired, waits>>
    /\ UNCHANGED << poolVars, backendStalled, copyErr, rid, order, ctxDone, woke, bufLen, bufOff, pktSent, bodySent, bufPool,
                    resp, packetWrites, cancelledInWait >>

\* the cases of the select that can proceed
Ready ==
    SelectCases \cap ((IF timerFired THEN {"timer"} ELSE {}) \cup (IF ctxDone THEN {"done"} ELSE {}))

\* lines 148-153, on entry: proceed with a ready case (any of them), or park
Select ==
    /\ pc = "select"
    /\ IF Ready = {}
       THEN /\ pc' = "parked"
            /\ UNCHANGED <<outcome, closes>>
       ELSE \E c \in Ready :
              IF c = "timer"
              THEN pc' = "dial" /\ UNCHANGED <<outcome, closes>>
              ELSE Abort
    /\ UNCHANGED << poolVars, backendStalled, copyErr, rid, order, ctxDone, tempDelay, timerFired, woke, connOpen, deferClose,
                    bufLen, bufOff, pktSent, bodySent, bufPool, resp, w, logs, dialCalls,
                    dialErrs, waits, packetWrites, cancelledInWait >>

\* lines 148-153, parked: the case that woke the select runs
Resume ==
    /\ pc = "parked"
    /\ woke # "none"
    /\ IF woke = "timer"
       THEN pc' = "dial" /\ woke' = "none" /\ UNCHANGED <<outcome, closes>>
       ELSE Abort /\ UNCHANGED woke
    /\ UNCHANGED << poolVars, backendStalled, copyErr, rid, order, ctxDone, tempDelay, timerFired, connOpen, deferClose,
                    bufLen, bufOff, pktSent, bodySent, bufPool, resp, w, logs, dialCalls,
                    dialErrs, waits, packetWrites, cancelledInWait >>

\* the timer of time.After(tempDelay) fires; a parked select is woken by it
TimerFire ==
    /\ pc \in {"select", "parked"}
    /\ ~timerFired
    /\ timerFired' = TRUE
    /\ woke' = IF pc = "parked" /\ woke = "none" /\ "timer" \in SelectCases
               THEN "timer" ELSE woke
    /\ UNCHANGED << poolVars, backendStalled, copyErr, rid, order, ctxDone, pc, outcome, tempDelay, connOpen, deferClose,
                    closes, bufLen, bufOff, pktSent, bodySent, bufPool, resp, w, logs,
                    dialCalls, dialErrs, waits, packetWrites, cancelledInWait >>

\* the request context is cancelled; a parked select is woken by it
Cancel ==
    /\ pc # "done"
    /\ ~ctxDone
    /\ ctxDone' = TRUE
    /\ woke' = IF pc = "parked" /\ woke = "none" /\ "done" \in SelectCases
               THEN "done" ELSE woke
    /\ cancelledInWait' = (pc = "parked" /\ woke = "none")
    /\ UNCHANGED << poolVars, backendStalled, copyErr, rid, order, pc, outcome, tempDelay, timerFired, connOpen, deferClose,
                    closes, bufLen, bufOff, pktSent, bodySent, bufPool, resp, w, logs,
                    dialCalls, dialErrs, waits, packetWrites >>

\* a faulty BadGateway: the failure is answered and not logged
BadGatewaySilent(msg) ==
    /\ logs' = logs
    /\ w' = HttpError(w, "Bad Gateway", 0, StatusBadGateway)
    /\ pc' = FailureNext
    /\ outcome' = "returned"
    /\ closes' = closes + ConnCloses(deferClose)

\* log, http.Error(502) and return: lines 173-175, 179-181 and 185-187
BadGateway(msg) ==
    /\ logs' = Append(logs, msg)
    /\ w' = HttpError(w, "Bad Gateway", 0, StatusBadGateway)
    /\ pc' = FailureNext
    /\ outcome' = "returned"
    /\ closes' = closes + ConnCloses(deferClose)

\* lines 161-171: take a buffer from bufPool, reset it, write the packet into it
Encode ==
    /\ pc = "encode"
    /\ bufPool' = IF bufPool > 0 THEN bufPool - 1 ELSE 0
    /\ bufLen' = Len(Packet)
    /\ bufOff' = 0
    /\ pc' = "writePacket"
    /\ UNCHANGED << poolVars, backendStalled, copyErr, rid, order, ctxDone, outcome, tempDelay, timerFired, woke, connOpen,
                    deferClose, closes, pktSent, bodySent, resp, w, logs, dialCalls,
                    dialErrs, waits, packetWrites, cancelledInWait >>

\* the numbers of bytes a failing write of n bytes may have written before it failed
PartialWrites(n) == {k \in {0, 1, 4, n - 1} : k >= 0 /\ k < n}

\* lines 172-177: io.Copy(conn, buf), then bufPool.Put(buf)
WritePacket ==
    /\ pc = "writePacket"
    /\ ~backendStalled
    /\ packetWrites' = packetWrites + 1
    /\ \/ /\ pktSent' = pktSent + (bufLen - bufOff)
          /\ bufLen' = 0
          /\ bufOff' = 0
          /\ bufPool' = bufPool + 1
          /\ pc' = "body"
          /\ UNCHANGED <<outcome, closes, w, logs>>
       \/ \E n \in PartialWrites(bufLen - bufOff) :
          /\ pktSent' = pktSent + n
          /\ bufOff' = bufOff + n
          /\ BadGateway("uwsgi header packet write: %v")
          /\ UNCHANGED <<bufLen, bufPool>>
    /\ UNCHANGED << poolVars, backendStalled, copyErr, rid, order, ctxDone, tempDelay, timerFired, woke, connOpen, deferClose,
                    bodySent, resp, dialCalls, dialErrs, waits, cancelledInWait >>

\* lines 178-182: io.Copy(conn, r.Body)
CopyBody ==
    /\ pc = "body"
    /\ ~backendStalled \/ Len(r.Body) = 0
    /\ \/ /\ bodySent' = Len(r.Body)
          /\ pc' = "readResp"
          /\ UNCHANGED <<outcome, closes, w, logs>>
       \/ \E n \in 0..Len(r.Body) :
          /\ bodySent' = n
          /\ BadGateway("uwsgi body write: %v")
    /\ UNCHANGED << poolVars, backendStalled, copyErr, rid, order, ctxDone, tempDelay, timerFired, woke, connOpen, deferClose,
                    bufLen, bufOff, pktSent, bufPool, resp, dialCalls, dialErrs, waits,
                    packetWrites, cancelledInWait >>

\* lines 183-188: http.ReadResponse(bufio.NewReader(conn), r)
ReadResponse ==
    /\ pc = "readResp"
    /\ ~backendStalled
    /\ \/ \E reply \in Replies :
          /\ resp' = reply
          /\ pc' = "relay"
          /\ UNCHANGED <<outcome, closes, w, logs>>
       \/ /\ BadGateway("uwsgi response read: %v")
          /\ UNCHANGED resp
    /\ UNCHANGED << poolVars, backendStalled, copyErr, rid, order, ctxDone, tempDelay, timerFired, woke, connOpen, deferClose,
                    bufLen, bufOff, pktSent, bodySent, bufPool, dialCalls, dialErrs, waits,
                    packetWrites, cancelledInWait >>

\* lines 189-193: copy the reply's headers, then w.WriteHeader(resp.StatusCode)
Relay ==
    /\ pc = "relay"
    /\ w' = RelayWriter(w, resp)
    /\ pc' = "copyResp"
    /\ UNCHANGED << poolVars, backendStalled, copyErr, rid, order, ctxDone, outcome, tempDelay, timerFired, woke, connOpen,
                    deferClose, closes, bufLen, bufOff, pktSent, bodySent, bufPool, resp,
                    logs, dialCalls, dialErrs, waits, packetWrites, cancelledInWait >>

\* line 194: io.Copy(w, resp.Body), whose error is dropped; then ServeHTTP returns
CopyResp ==
    /\ pc = "copyResp"
    /\ ~backendStalled \/ Len(resp.Body) = 0
    /\ \E n \in 0..Len(resp.Body) :
          /\ w' = CopyWriter(w, resp.Body, n)
          /\ copyErr' = IF n = Len(resp.Body) THEN "nil" ELSE "error"
    /\ Return
    /\ UNCHANGED << poolVars, backendStalled, rid, order, ctxDone, tempDelay, timerFired, woke, connOpen, deferClose,
                    bufLen, bufOff, pktSent, bodySent, bufPool, resp, logs, dialCalls,
                    dialErrs, waits, packetWrites, cancelledInWait >>

\* the backend stops reading from the connection and writing to it, for good
Stall ==
    /\ connOpen
    /\ pc # "done"
    /\ ~backendStalled
    /\ backendStalled' = TRUE
    /\ UNCHANGED << poolVars, copyErr, rid, order, ctxDone, pc, outcome, tempDelay,
                    timerFired, woke, connOpen, deferClose, closes, bufLen, bufOff, pktSent,
                    bodySent, bufPool, resp, w, logs, dialCalls, dialErrs, waits,
                    packetWrites, cancelledInWait >>

Next ==
    \/ Validate
    \/ Dial
    \/ Select
    \/ Resume
    \/ TimerFire
    \/ Cancel
    \/ Encode
    \/ WritePacket
    \/ CopyBody
    \/ ReadResponse
    \/ Relay
    \/ CopyResp
    \/ Stall

Spec == Init /\ [][Next]_vars

\* the steps of the handler itself
HandlerStep ==
    \/ Validate
    \/ Dial
    \/ Select
    \/ Resume
    \/ Encode
    \/ WritePacket
    \/ CopyBody
    \/ ReadResponse
    \/ Relay
    \/ CopyResp

\* the requests that differ from BaseRequest in their body at most
LiveInit == Init /\ [r EXCEPT !.Body = << >>, !.ContentLength = 0] = BaseRequest

\* the handler runs whenever it is not blocked (every call of dial returns), and a
\* timer that was started fires
LiveSpec == LiveInit /\ [][Next]_vars /\ WF_vars(HandlerStep) /\ WF_vars(TimerFire)

(***************************************************************************)
(* Concurrent calls of ServeHTTP, each in lines 163-177, sharing bufPool.   *)
(***************************************************************************)
\* line 163: bufPool.Get() returns a buffer of the pool, or a new one (the pool is
\* empty, or it has dropped its buffers)
PoolGet(p) ==
    /\ proc[p].pc = "get"
    /\ \/ \E b \in idle :
            /\ idle' = PoolTake(idle, b)
            /\ bufs' = [bufs EXCEPT ![b].users = Append(@, p)]
            /\ proc' = [proc EXCEPT ![p].pc = "reset", ![p].buf = b, ![p].had = b]
       \/ /\ bufs' = Append(bufs, NewBuffer(p))
          /\ proc' = [proc EXCEPT ![p].pc = "reset", ![p].buf = Len(bufs) + 1,
                                   ![p].had = Len(bufs) + 1]
          /\ UNCHANGED idle
    /\ UNCHANGED handlerVars

\* line 164: buf.Reset()
BufReset(p) ==
    /\ proc[p].pc = "reset"
    /\ bufs' = [bufs EXCEPT ![proc[p].buf].segs = << >>, ![proc[p].buf].off = 0]
    /\ proc' = [proc EXCEPT ![p].pc = "fill"]
    /\ UNCHANGED << idle, handlerVars >>

\* lines 165-171: the packet of the call is written into the buffer
BufFill(p) ==
    /\ proc[p].pc = "fill"
    /\ bufs' = [bufs EXCEPT ![proc[p].buf].segs = Append(@, p)]
    /\ proc' = [proc EXCEPT ![p].pc = "copy"]
    /\ UNCHANGED << idle, handlerVars >>

\* line 172: io.Copy(conn, buf) writes what the buffer holds to the connection of
\* the call and leaves it empty, or fails after a part of it and the call returns
PoolCopy(p) ==
    /\ proc[p].pc = "copy"
    /\ LET b == proc[p].buf
           total == Len(SegBytes(bufs[b].segs))
       IN  \/ /\ proc' = [proc EXCEPT ![p].pc = "put",
                                       ![p].sent = [segs |-> bufs[b].segs,
                                                    lo |-> bufs[b].off, hi |-> total]]
              /\ bufs' = [bufs EXCEPT ![b].segs = << >>, ![b].off = 0]
           \/ \E n \in PartialWrites(total - bufs[b].off) :
              /\ proc' = [proc EXCEPT ![p].pc = "end", ![p].buf = 0,
                                       ![p].sent = [segs |-> bufs[b].segs,
                                                    lo |-> bufs[b].off,
                                                    hi |-> bufs[b].off + n]]
              /\ bufs' = [bufs EXCEPT ![b].off = @ + n]
    /\ UNCHANGED << idle, handlerVars >>

\* line 177: bufPool.Put(buf); the call does not use buf again
PoolPut(p) ==
    /\ proc[p].pc = "put"
    /\ idle' = idle \cup {proc[p].buf}
    /\ proc' = [proc EXCEPT ![p].pc = "end", ![p].buf = 0]
    /\ UNCHANGED << bufs, handlerVars >>

PoolNext ==
    \/ \E p \in Procs : PoolGet(p)
    \/ \E p \in Procs : BufReset(p)
    \/ \E p \in Procs : BufFill(p)
    \/ \E p \in Procs : PoolCopy(p)
    \/ \E p \in Procs : PoolPut(p)

\* the calls run lines 163-177 in any interleaving; the rest of the handler is
\* left out of this specification
PoolInit == Init /\ rid = 1

PoolSpec == PoolInit /\ [][PoolNext]_vars

(***************************************************************************)
(* Properties.                                                             *)
(***************************************************************************)
\* dial has been called and every call returned a temporary net.Error
AllTemporary ==
    dialCalls >= 1 /\ \A i \in 1..Len(dialErrs) : dialErrs[i] = ErrTemporary.id

\* the error the last call of dial returned ("nil" for a connection)
LastDialErr == dialErrs[Len(dialErrs)]

Backoff == <<5, 10, 20, 40, 80, 160, 320, 640>>

Min(a, b) == IF a < b THEN a ELSE b

\* C1: while every call of dial fails with a temporary error, the timers started
\* between the calls are 5, 10, 20, ..., 640 ms in this order, one per failed call
\* and at most 8; dial is called at most 9 times; the 9th failure ends the request
\* with 504 and no further timer; and unless the handler aborted (the context was
\* cancelled), it only ends after that 9th call, with 504.
C1_BackoffThenGatewayTimeout ==
    AllTemporary =>
        /\ dialCalls <= 9
        /\ waits = SubSeq(Backoff, 1, Min(dialCalls, 8))
        /\ dialCalls = 9 =>
              pc = "done" /\ outcome = "returned" /\ w.status = 504
        /\ (pc = "done" /\ outcome # "abort") =>
              dialCalls = 9 /\ w.status = 504 /\ ~connOpen /\ connIn = << >>

C1_Witness ==
    /\ AllTemporary
    /\ pc = "done"
    /\ dialCalls = 9
    /\ waits = Backoff
    /\ w.status = 504

\* C2: once the context is cancelled while the handler is parked in the backoff
\* select (its timer not yet fired), the handler stays parked until it aborts: dial
\* is not called again (one call per timer started), nothing is written to the
\* response, no connection is acquired and no byte reaches a backend, and when the
\* handler is done its outcome is the abort.
C2_CancelInWaitAborts ==
    cancelledInWait =>
        /\ pc \in {"parked", "done"}
        /\ dialCalls = Len(waits)
        /\ w = FreshWriter
        /\ ~connOpen
        /\ connIn = << >>
        /\ pc = "done" => outcome = "abort"

C2_Witness ==
    /\ cancelledInWait
    /\ pc = "done"
    /\ outcome = "abort"
    /\ Len(waits) >= 2

\* C3: whenever the last call of dial failed with an error that reports the
\* cancellation of the context (context.Canceled itself or an error wrapping the
\* cancellation), the handler has aborted: nothing is written to the response, no
\* wait follows and dial is not called again.
C3_CancelledConnectAborts ==
    (dialCalls >= 1 /\ LastDialErr \in {ErrCanceled.id, ErrOpCanceled.id}) =>
        /\ pc = "done"
        /\ outcome = "abort"
        /\ w = FreshWriter
        /\ Len(waits) = dialCalls - 1

\* C4: whenever the last call of dial failed with an error that is neither a
\* cancellation nor temporary, the handler has returned with 503: no timer was
\* started for that failure (one timer per earlier failure only), no connection is
\* held, and the handler is done, so dial is not called again.
C4_NonTransientIs503 ==
    (dialCalls >= 1 /\ LastDialErr \in {ErrRefused.id, ErrOther.id}) =>
        /\ pc = "done"
        /\ outcome = "returned"
        /\ w.status = 503
        /\ Len(waits) = dialCalls - 1
        /\ ~connOpen
        /\ connIn = << >>

C4_Witness ==
    /\ dialCalls >= 3
    /\ LastDialErr = ErrRefused.id
    /\ pc = "done"
    /\ w.status = 503

\* the request carries a Trailer header whose (first) value is not empty
CarriesTrailer(req) ==
    \E i \in 1..Len(req.Header) :
        /\ req.Header[i].key = KeyTrailer
        /\ Len(req.Header[i].vals) > 0
        /\ req.Header[i].vals[1] # << >>

\* some header of the request has a mapped name or a joined value over 65535 bytes
HasOversizeField(req) ==
    \E i \in 1..Len(req.Header) :
        \/ Len(req.Header[i].key) + 5 > 65535
        \/ Len(Join(req.Header[i].vals, S_CommaSpace)) > 65535

\* the pairs of the request, in one of the orders the handler may build them
PairsOf(req) == BuildHeaders(req, CHOOSE o \in RangeOrders(req.Header) : TRUE)

\* totalSize of the request: the sum of len(name) + len(value) + 4 over its pairs
TotalSize(req) == Size(PairsOf(req))

\* every pair of the request is within 65535 bytes and their total size is not
AggregateOver(req) ==
    /\ \A i \in 1..Len(PairsOf(req)) :
          Len(PairsOf(req)[i].name) <= 65535 /\ Len(PairsOf(req)[i].value) <= 65535
    /\ TotalSize(req) > 65535

\* C5 as stated: a request with a header name or value over 65535 bytes is answered
\* with 431, dial is never called and no byte is written to a backend.
C5_OversizeFieldIs431 ==
    HasOversizeField(r) =>
        /\ dialCalls = 0
        /\ connIn = << >>
        /\ pc = "done" => w.status = 431

\* C5, amended: a request with a header name or value over 65535 bytes is answered
\* with a 4xx status, 431 or, when it also carries a non-empty Trailer header, 400;
\* dial is never called and no byte is written to a backend.
C5_OversizeFieldIs4xx ==
    HasOversizeField(r) =>
        /\ dialCalls = 0
        /\ ~connOpen
        /\ connIn = << >>
        /\ pc \in {"start", "done"}
        /\ pc = "done" =>
              /\ outcome = "returned"
              /\ w.status = IF CarriesTrailer(r) THEN 400 ELSE 431

C5_Witness ==
    /\ HasOversizeField(r)
    /\ ~CarriesTrailer(r)
    /\ pc = "done"
    /\ w.status = 431
    /\ dialCalls = 0

\* C6 as stated: a request whose pairs are each within 65535 bytes and whose
\* totalSize exceeds 65535 is answered with 431 before any call of dial and before
\* a packet is encoded; dial is only called when totalSize <= 65535, and the size
\* field of an encoded packet is totalSize.
C6_OversizeTotalIs431 ==
    /\ AggregateOver(r) =>
          /\ dialCalls = 0
          /\ packetWrites = 0
          /\ buf = << >>
          /\ connIn = << >>
          /\ pc = "done" => w.status = 431
    /\ dialCalls > 0 => TotalSize(r) <= 65535
    /\ pc = "writePacket" => buf[2] + 256 * buf[3] = TotalSize(r)

\* C6, amended: such a request is answered with 431, or with 400 when it also
\* carries a non-empty Trailer header, before any call of dial and before a packet
\* is encoded; dial is only called when totalSize <= 65535, and the size field of
\* an encoded packet is totalSize.
C6_OversizeTotalIs4xx ==
    /\ AggregateOver(r) =>
          /\ dialCalls = 0
          /\ packetWrites = 0
          /\ buf = << >>
          /\ connIn = << >>
          /\ pc \in {"start", "done"}
          /\ pc = "done" =>
                /\ outcome = "returned"
                /\ w.status = IF CarriesTrailer(r) THEN 400 ELSE 431
    /\ dialCalls > 0 => TotalSize(r) <= 65535 /\ size = TotalSize(r)
    /\ pc = "writePacket" => buf[2] + 256 * buf[3] = TotalSize(r)

C6_Witness ==
    /\ AggregateOver(r)
    /\ ~CarriesTrailer(r)
    /\ TotalSize(r) = 65536
    /\ pc = "done"
    /\ w.status = 431

\* C7: a request that carries a non-empty Trailer header is answered with 400, and
\* dial is never called for it.
C7_TrailerIs400 ==
    CarriesTrailer(r) =>
        /\ dialCalls = 0
        /\ ~connOpen
        /\ pc \in {"start", "done"}
        /\ pc = "done" => outcome = "returned" /\ w.status = 400

C7_Witness ==
    /\ CarriesTrailer(r)
    /\ ~HasOversizeField(r)
    /\ pc = "done"
    /\ w.status = 400

\* the 16-bit little-endian number at b[i], b[i+1]
LE16(b, i) == b[i] + 256 * b[i + 1]

\* a pair no header equals: the mark of a payload that does not parse
Malformed == hdr(<<-1>>, <<-1>>)

RECURSIVE DecodePairs(_)
\* the pairs of a uwsgi payload: each a 16-bit LE length and the name, a 16-bit LE
\* length and the value
DecodePairs(b) ==
    IF Len(b) = 0 THEN << >>
    ELSE IF Len(b) < 2 \/ Len(b) < 2 + LE16(b, 1) + 2 THEN << Malformed >>
    ELSE LET nl == LE16(b, 1)
             vl == LE16(b, 3 + nl)
         IN  IF Len(b) < 4 + nl + vl THEN << Malformed >>
             ELSE << hdr(SubSeq(b, 3, 2 + nl), SubSeq(b, 5 + nl, 4 + nl + vl)) >>
                  \o DecodePairs(SubSeq(b, 5 + nl + vl, Len(b)))

\* the bytes of the packet: those written to the connection and those still in buf
PacketBytes == SubSeq(connIn \o buf, 1, Min(4 + size, Len(connIn) + Len(buf)))

\* C8: the packet the handler encodes and writes has byte 0 = 0, bytes 1-2 = the
\* little-endian totalSize, byte 3 = 0; the size field is the number of bytes that
\* follow the 4-byte prefix; and decoding those bytes yields the header pairs in the
\* same order.  A successful write puts exactly these bytes first on the connection.
C8_PacketRoundTrip ==
    (pc = "writePacket" \/ packetWrites >= 1) =>
        LET pkt == PacketBytes
            sent == connIn
            n == size
        IN  /\ Len(pkt) = 4 + n
            /\ pkt[1] = 0
            /\ pkt[4] = 0
            /\ LE16(pkt, 2) = n
            /\ LE16(pkt, 2) = Len(pkt) - 4
            /\ DecodePairs(SubSeq(pkt, 5, Len(pkt))) = headers
            /\ pc = "writePacket" => buf = pkt /\ sent = << >>
            /\ pc \in {"body", "readResp", "relay", "copyResp"} =>
                  buf = << >> /\ SubSeq(sent, 1, 4 + n) = pkt

C8_Witness ==
    /\ pc = "readResp"
    /\ size = 65535
    /\ Len(connIn) = 65539
    /\ Len(headers) = 12
    /\ Len(headers[12].value) > 255

\* C9: the connection dial returned is closed exactly once when the handler is
\* done and not before, whatever happened after it was acquired; no close runs
\* when no connection was acquired.
C9_ConnClosedOnce ==
    /\ (connOpen /\ pc = "done") => closes = 1
    /\ (connOpen /\ pc # "done") => closes = 0
    /\ ~connOpen => closes = 0

\* the final copy of the reply body failed after the status was written
C9_Witness ==
    /\ connOpen
    /\ pc = "done"
    /\ closes = 1
    /\ w.status = resp.StatusCode
    /\ resp.Body # << >>
    /\ w.body # resp.Body

\* C10: dial returns a connection at most once and is not called after that; the
\* packet write is started at most once; and a failed packet write, body write or
\* reply read (answered 502) leaves the handler done.
C10_NoRetryAfterConnect ==
    /\ \A i \in 1..Len(dialErrs) : dialErrs[i] = "nil" => i = Len(dialErrs)
    /\ dialCalls = Len(dialErrs)
    /\ connOpen <=> (dialCalls >= 1 /\ LastDialErr = "nil")
    /\ packetWrites <= 1
    /\ packetWrites = 1 => connOpen
    /\ w.status = 502 => pc = "done" /\ outcome = "returned" /\ connOpen

C10_Witness ==
    /\ pc = "done"
    /\ w.status = 502
    /\ packetWrites = 1
    /\ dialCalls >= 2
    /\ Len(connIn) > 4 + size

\* the header pairs have been built and passed the checks of lines 105-125
Validated == pc # "start" /\ ~(pc = "done" /\ dialCalls = 0)

\* the first value of the request header key, "" when there is none
HeaderValue(req, key) ==
    LET at == {i \in 1..Len(req.Header) :
                  req.Header[i].key = key /\ Len(req.Header[i].vals) > 0}
    IN  IF at = {} THEN << >> ELSE req.Header[CHOOSE i \in at : TRUE].vals[1]

\* the pairs of hs that are named name, in order
PairsNamed(hs, name) == SelectSeq(hs, LAMBDA h : h.name = name)

\* the left-most of the comma-separated entries of s
LeftMost(s) ==
    LET commas == {i \in 1..Len(s) : s[i] = 44}
    IN  IF commas = {} THEN s
        ELSE SubSeq(s, 1, (CHOOSE i \in commas : \A j \in commas : i <= j) - 1)

\* C11: the pairs built for a request with a non-empty X-Forwarded-For header
\* hold exactly one REMOTE_ADDR, the left-most comma-separated entry of that
\* header; without the header REMOTE_ADDR is the host of the peer address; and
\* REMOTE_PORT is the port of the peer address whenever that address splits.
C11_RemoteAddrLeftMost ==
    Validated =>
        LET xff == HeaderValue(r, KeyXForwardedFor)
            peer == SplitHostPort(r.RemoteAddr)
        IN  /\ xff # << >> =>
                  PairsNamed(headers, S_REMOTE_ADDR) = << hdr(S_REMOTE_ADDR, LeftMost(xff)) >>
            /\ (xff = << >> /\ peer.ok) =>
                  PairsNamed(headers, S_REMOTE_ADDR) = << hdr(S_REMOTE_ADDR, peer.host) >>
            /\ peer.ok =>
                  PairsNamed(headers, S_REMOTE_PORT) = << hdr(S_REMOTE_PORT, peer.port) >>

\* the request is secure: its URL scheme or its X-Forwarded-Proto header is "https"
Secure(req) == req.Scheme = S_https \/ HeaderValue(req, KeyXForwardedProto) = S_https

\* C12: the pairs built for a secure request hold HTTPS = "on" and exactly one
\* SERVER_PORT, "443", whatever the local address is; the pairs of any other
\* request hold no HTTPS.
C12_SecureIs443 ==
    Validated =>
        IF Secure(r)
        THEN /\ PairsNamed(headers, S_HTTPS) = << hdr(S_HTTPS, S_on) >>
             /\ PairsNamed(headers, S_SERVER_PORT) = << hdr(S_SERVER_PORT, S_443) >>
        ELSE PairsNamed(headers, S_HTTPS) = << >>

\* a request made secure by X-Forwarded-Proto alone, on a connection whose local
\* port is 8080, has reached the backend
C12_Witness ==
    /\ pc = "readResp"
    /\ r.Scheme # S_https
    /\ HeaderValue(r, KeyXForwardedProto) = S_https
    /\ r.LocalAddr.ok
    /\ r.LocalAddr.addr = S_Local
    /\ PairsNamed(SubSeq(DecodePairs(SubSeq(connIn, 5, Len(connIn))), 9, 10), S_SERVER_PORT)
          = << hdr(S_SERVER_PORT, S_443) >>

\* C14: the pairs built for a request that is not secure hold exactly one
\* SERVER_PORT: the port of the local address when the context holds one that
\* splits into host and port, and "80" otherwise.
C14_ServerPortOrDefault ==
    (Validated /\ ~Secure(r)) =>
        LET loc == SplitHostPort(r.LocalAddr.addr)
        IN  PairsNamed(headers, S_SERVER_PORT)
              = << hdr(S_SERVER_PORT, IF r.LocalAddr.ok /\ loc.ok THEN loc.port ELSE S_80) >>

\* a is the beginning of b
IsPrefix(a, b) == Len(a) <= Len(b) /\ a = SubSeq(b, 1, Len(a))

\* the header map sent holds every header of the reply rs with its values
CarriesHeaders(sent, rs) ==
    \A k \in DOMAIN rs.Header : k \in DOMAIN sent /\ sent[k] = rs.Header[k]

\* C13 as stated: once the backend's reply has parsed, nothing is written to the
\* caller before the reply's headers are set; the status written is the reply's
\* status, sent with every header of the reply; body bytes only follow the status;
\* and when the handler is done the body relayed is exactly the reply's body.
C13_RelayExact ==
    resp # NoResp =>
        /\ pc \in {"relay", "copyResp", "done"}
        /\ pc = "relay" => w.wroteHeader = 0 /\ w.body = << >>
        /\ pc # "relay" =>
              /\ w.wroteHeader = 1
              /\ w.status = resp.StatusCode
              /\ CarriesHeaders(w.sent, resp)
        /\ pc = "done" => w.body = resp.Body

\* C13, amended: as above, but the body relayed is a beginning of the reply's body,
\* and all of it when the final copy did not fail.
C13_RelayExactUnlessCopyFails ==
    resp # NoResp =>
        /\ pc \in {"relay", "copyResp", "done"}
        /\ pc = "relay" => w.wroteHeader = 0 /\ w.body = << >>
        /\ pc # "relay" =>
              /\ w.wroteHeader = 1
              /\ w.status = resp.StatusCode
              /\ CarriesHeaders(w.sent, resp)
        /\ IsPrefix(w.body, resp.Body)
        /\ (pc = "done" /\ copyErr = "nil") => w.body = resp.Body

\* a 404 reply with two headers and a body was relayed in full
C13_Witness ==
    /\ pc = "done"
    /\ copyErr = "nil"
    /\ resp.StatusCode = 404
    /\ w.status = 404
    /\ "Set-Cookie" \in DOMAIN w.sent
    /\ Len(w.body) = MaxRespBody
    /\ w.body = resp.Body

\* C15: when the handler is done without a connection after calling dial (the
\* transient failures were exhausted, a failure was not transient, dial returned a
\* cancellation, or the context was cancelled during a wait), the failure was
\* logged, once; a request rejected by validation is not logged.
C15_ConnectFailuresLogged ==
    /\ (pc = "done" /\ dialCalls >= 1 /\ ~connOpen) =>
          logs = << "uwsgi backend connect: %v" >>
    /\ (pc = "done" /\ dialCalls = 0) => logs = << >>

\* the log messages of the three phases after the connection was acquired
PhaseMessages ==
    << "uwsgi header packet write: %v", "uwsgi body write: %v", "uwsgi response read: %v" >>

\* C16: when the handler is done with a connection and no parsed reply, one of the
\* three phases failed: the failure was logged, once, with the message of its
\* phase; the response is a 502 that holds nothing of the backend; a failed packet
\* write left the packet incomplete and no body byte was sent; a failed body write
\* followed the whole packet; a failed reply read followed the whole packet and
\* body.  A 502 is written in no other case.
C16_PhaseFailureIs502 ==
    /\ (connOpen /\ pc = "done" /\ resp = NoResp) =>
          /\ outcome = "returned"
          /\ w.status = 502
          /\ w.wroteHeader = 1
          /\ w.body = << >>
          /\ DOMAIN w.sent = {"Content-Type", "X-Content-Type-Options"}
          /\ Len(logs) = 1
          /\ \E i \in 1..3 : logs[1] = PhaseMessages[i]
          /\ logs[1] = PhaseMessages[1] => pktSent < Len(Packet) /\ bodySent = 0
          /\ logs[1] = PhaseMessages[2] => pktSent = Len(Packet)
          /\ logs[1] = PhaseMessages[3] => pktSent = Len(Packet) /\ bodySent = Len(r.Body)
    /\ w.status = 502 => connOpen /\ pc = "done" /\ resp = NoResp

\* the body write failed after one byte of a two-byte body
C16_Witness ==
    /\ pc = "done"
    /\ w.status = 502
    /\ logs = << PhaseMessages[2] >>
    /\ pktSent = Len(Packet)
    /\ bodySent = 1
    /\ resp = NoResp

\* the statuses of the error responses
ErrorStatuses == {400, 431, 502, 503, 504}

\* C19: WriteHeader is called at most once; until the handler is done it has no
\* outcome, and a status is only written before that when the reply is being
\* relayed; when it is done its outcome is either the abort, with nothing written,
\* or a return with one status: the reply's status when the reply parsed (with no
\* error text, whatever the final copy did) and one of 400, 431, 502, 503, 504
\* otherwise.
C19_OneOutcome ==
    /\ w.wroteHeader <= 1
    /\ pc # "done" =>
          /\ outcome = "none"
          /\ w.wroteHeader = 1 => pc = "copyResp"
    /\ pc = "done" =>
          /\ outcome \in {"returned", "abort"}
          /\ outcome = "abort" => w = FreshWriter
          /\ outcome = "returned" =>
                /\ w.wroteHeader = 1
                /\ IF resp # NoResp
                   THEN w.status = resp.StatusCode /\ w.text = ""
                   ELSE w.status \in ErrorStatuses /\ w.text # "" /\ w.body = << >>

\* the final copy failed after the reply's status 404 was written
C19_Witness ==
    /\ pc = "done"
    /\ outcome = "returned"
    /\ copyErr = "error"
    /\ resp.StatusCode = 404
    /\ w.status = 404
    /\ w.wroteHeader = 1
    /\ Len(w.body) < Len(resp.Body)

RECURSIVE Sum(_)
\* the sum of the numbers of a sequence
Sum(q) == IF Len(q) = 0 THEN 0 ELSE q[1] + Sum(Tail(q))

\* C20: whatever dial returns, it is called at most 9 times and at most 8 timers
\* are started, one per temporary failure; the k-th timer is 5 * 2^(k-1) ms, none
\* is over 640 ms and together they are at most 1275 ms; tempDelay is the delay of
\* the last timer until the 9th failure doubles it to 1280; and the 9th call ends
\* the loop.
C20_LoopBounds ==
    /\ dialCalls <= 9
    /\ Len(waits) <= 8
    /\ Len(waits) <= dialCalls
    /\ \A k \in 1..Len(waits) : waits[k] = 5 * 2^(k - 1) /\ waits[k] <= 640
    /\ Sum(waits) <= 1275
    /\ tempDelay \in {0, 5, 10, 20, 40, 80, 160, 320, 640, 1280}
    /\ tempDelay = 0 <=> waits = << >>
    /\ (tempDelay # 0 /\ tempDelay <= 640) => tempDelay = waits[Len(waits)]
    /\ tempDelay = 1280 => Len(waits) = 8 /\ dialCalls = 9
    /\ dialCalls = 9 => pc \notin {"dial", "select", "parked"}

\* eight temporary failures, 1275 ms of waiting, and the 9th call connects
C20_Witness ==
    /\ dialCalls = 9
    /\ Len(waits) = 8
    /\ Sum(waits) = 1275
    /\ dialErrs[9] = "nil"
    /\ connOpen

\* C18: once the request context is cancelled the handler eventually finishes,
\* wherever it is then: in a call of dial, in a backoff wait, in the packet write,
\* in the copy of the request body, in the read of the reply or in the copy of the
\* reply body, and whether or not the backend still reads and replies.
C18_CancelUnblocks == ctxDone ~> (pc = "done")

\* the calls that hold a buffer: between their Get and their Put or return
Holders == {p \in Procs : proc[p].buf # 0}

\* the bytes written to the connection of call p
SentBytes(p) == SubSeq(SegBytes(proc[p].sent.segs), proc[p].sent.lo + 1, proc[p].sent.hi)

\* C17: in every interleaving of the calls, a buffer is held by at most one call
\* and is not in the pool while it is held; when a call writes its packet into the
\* buffer the buffer is empty, and what the call then copies to its connection is
\* its own packet; a call that has put its buffer back, or returned, holds none;
\* and the bytes a call wrote to its connection are a beginning of its own
\* packet, all of it when the copy succeeded.
C17_BufferExclusive ==
    /\ \A p, q \in Holders : p # q => proc[p].buf # proc[q].buf
    /\ \A p \in Holders : proc[p].buf \notin idle
    /\ \A p \in Procs :
          /\ proc[p].pc \in {"reset", "fill", "copy", "put"} <=> p \in Holders
          /\ proc[p].pc = "fill" => bufs[proc[p].buf].segs = << >> /\ bufs[proc[p].buf].off = 0
          /\ proc[p].pc = "copy" => BufBytes(bufs[proc[p].buf]) = PoolPacket(p)
          /\ proc[p].pc = "put" => BufBytes(bufs[proc[p].buf]) = << >>
          /\ IsPrefix(SentBytes(p), PoolPacket(p))
          /\ proc[p].pc = "put" => SentBytes(p) = PoolPacket(p)
    /\ \A b \in idle : BufBytes(bufs[b]) = << >>

\* a call copies its packet from a buffer that another call has used and put back,
\* while a third call holds another buffer
C17_Witness ==
    \E p, q \in Procs :
        /\ p # q
        /\ proc[p].pc = "put"
        /\ Len(bufs[proc[p].buf].users) = 2
        /\ SentBytes(p) = PoolPacket(p)
        /\ proc[q].pc = "copy"
        /\ proc[q].buf # proc[p].buf

=============================================================================
